---- MODULE Spec2Model ----
(***************************************************************************)
(* The build-deploy-notify pipeline of main.py: the /build-my-app handler, *)
(* the background run process_project and its four stages                  *)
(* (generate_app_code, create_and_populate_repo, enable_and_verify_pages,  *)
(* notify_evaluation_api), against a repository host, a hosting endpoint   *)
(* and an evaluation callback whose answers are nondeterministic.          *)
(*                                                                         *)
(* One action is one blocking remote call of a run together with the local *)
(* code that follows it up to the next remote call.  Runs of different     *)
(* requests interleave freely (each background task has its own thread).   *)
(***************************************************************************)
EXTENDS Integers, Sequences, FiniteSets, TLC

\* Number of requests the service receives.
MaxRuns == 2

Runs == 1 .. MaxRuns

\* ------------------------------------------------------------------------
\* Configuration and request data

MY_SECRET == "secret"

Secrets == {MY_SECRET, "wrong"}

\* The r-th request: all requests name the same task (hence the same
\* repository); the round and the nonce tell them apart.
ProjectRequest(r, secret) ==
    [email |-> "student@example.com", secret |-> secret, task |-> "app",
     round |-> r, nonce |-> r, brief |-> "brief",
     evaluation_url |-> "https://eval.example/notify"]

NoRequest ==
    [email |-> "", secret |-> "", task |-> "", round |-> 0, nonce |-> 0,
     brief |-> "", evaluation_url |-> ""]

\* ------------------------------------------------------------------------
\* Files and contents.  A content is a tuple of strings; a mapping of file
\* names to contents is a sequence of entries in insertion order (a Python
\* dict).

FileNames == {"LICENSE", "README.md", "index.html", "script.js"}

Entry(name, content) == [name |-> name, content |-> content]

Names(entries) == [k \in 1 .. Len(entries) |-> entries[k].name]

Absent == <<>>

mit_license == <<"MIT License">>

readme_content(repo_name, brief) == <<"readme", repo_name, brief>>

FallbackPage == <<"<h1>Error</h1>", "Could not generate the application code">>

\* JSON objects the code-generation service may answer with.
ArtifactSets ==
    { <<>>,
      << Entry("index.html", <<"html">>), Entry("script.js", <<"js v1">>) >>,
      << Entry("script.js", <<"js v2">>), Entry("LICENSE", <<"generated license">>) >> }

\* ------------------------------------------------------------------------
\* generate_app_code: the service's raw text is a sequence of tokens; the
\* cleaning strips a leading json fence and a trailing fence, and json.loads
\* accepts exactly one JSON value.

Tok(kind, entries) == [tok |-> kind, entries |-> entries]

FenceJson == Tok("fence json", <<>>)
Fence == Tok("fence", <<>>)

RawTexts ==
    UNION { { << Tok("object", a) >>,
              << FenceJson, Tok("object", a), Fence >>,
              << Fence, Tok("object", a), Fence >> } : a \in ArtifactSets }
    \cup { << Tok("array", <<>>) >>, << Tok("text", <<>>) >>, <<>> }

\* What model.generate_content does: it answers with a text or raises.
GeminiResponses ==
    [ok : {TRUE}, text : RawTexts] \cup [ok : {FALSE}, text : {<<>>}]

StripPrefix(raw_text) ==
    IF Len(raw_text) > 0 /\ Head(raw_text) = FenceJson THEN Tail(raw_text) ELSE raw_text

StripSuffix(raw_text) ==
    IF Len(raw_text) > 0 /\ raw_text[Len(raw_text)] = Fence
    THEN SubSeq(raw_text, 1, Len(raw_text) - 1)
    ELSE raw_text

\* The value generate_app_code returns: isdict tells a mapping from any
\* other JSON value (json.loads returns whatever the text denotes).
Files(isdict, entries) == [isdict |-> isdict, entries |-> entries]

NoFiles == Files(FALSE, <<>>)

\* Mutant: the except branch hands on an empty mapping.
EmptyFiles == Files(TRUE, <<>>)

\* The mapping returned by the except branch.
FallbackFiles == Files(TRUE, << Entry("index.html", FallbackPage) >>)

json_loads(raw_text) ==
    IF Len(raw_text) = 1 /\ raw_text[1].tok \in {"object", "array"}
    THEN [ok |-> TRUE, value |-> Files(raw_text[1].tok = "object", raw_text[1].entries)]
    ELSE [ok |-> FALSE, value |-> NoFiles]

generate_app_code(resp) ==
    IF ~resp.ok
    THEN FallbackFiles
    ELSE LET parsed == json_loads(StripSuffix(StripPrefix(resp.text)))
         IN  IF parsed.ok THEN parsed.value ELSE FallbackFiles

\* ------------------------------------------------------------------------
\* The repository host (external).  A blob hash is a function of the
\* content alone; a commit identifier is unique to its commit (here: the
\* round of the commit message and the position of the write in its run).

Tasks == {"app"}

Sha(content) == <<"blob">> \o content

NoSha == <<>>

\* latest_commit_sha = "" before the first write
EmptyCommitSha == <<>>

CommitSha(round, k) == <<round, k>>

NoRepo ==
    [exists |-> FALSE, files |-> [f \in FileNames |-> Absent], pages |-> FALSE]

\* The host's repository after one file write (a commit).
Commit(repository, path, content) ==
    [repository EXCEPT !.files[path] = content]

html_url(repo_name) == <<"https://github.com", "owner", repo_name>>

PagesUrl(repo_name) == <<"https://owner.github.io", repo_name>>

\* Mutant: the generated files are appended as to a list.
ListConcat(d, entries) == d \o entries

\* files_to_commit = {"LICENSE": ..., "README.md": ..., **files}: a key
\* already present keeps its position and takes the new value.
RECURSIVE DictUpdate(_, _)
DictUpdate(d, entries) ==
    IF entries = <<>>
    THEN d
    ELSE LET e == Head(entries)
             at == {k \in 1 .. Len(d) : d[k].name = e.name}
         IN  DictUpdate(IF at = {}
                        THEN Append(d, e)
                        ELSE [k \in 1 .. Len(d) |-> IF k \in at THEN e ELSE d[k]],
                        Tail(entries))

StandardFiles(repo_name, brief) ==
    << Entry("LICENSE", mit_license),
       Entry("README.md", readme_content(repo_name, brief)) >>

FilesToCommit(repo_name, files, brief) ==
    DictUpdate(StandardFiles(repo_name, brief), files.entries)

\* ------------------------------------------------------------------------
\* Retry budgets

\* enable_and_verify_pages: max_retries
ProbeRetries == 15

\* notify_evaluation_api: max_retries
NotifyRetries == 5

\* notify_evaluation_api: delay = 1
InitialDelay == 1

HttpAnswer(raised, status_code) == [raised |-> raised, status_code |-> status_code]

\* A status 200, another status, a transport failure (RequestException).
HttpAnswers == {HttpAnswer(FALSE, 200), HttpAnswer(FALSE, 404), HttpAnswer(TRUE, 0)}

NoPayload ==
    [email |-> "", task |-> "", round |-> 0, nonce |-> 0, repo_url |-> <<>>,
     commit_sha |-> EmptyCommitSha, pages_url |-> <<>>]

\* ------------------------------------------------------------------------
\* State

VARIABLES
    pc,                \* where each request / run is
    req,               \* the request received
    response,          \* status of the HTTP response sent to the caller (0: none yet)
    background_tasks,  \* tasks added to the request's BackgroundTasks
    generated_files,   \* process_project: generated_files
    gen_failed,        \* generate_app_code took its except branch
    repo,              \* the repository handle (its name; "" before)
    files_to_commit,   \* create_and_populate_repo: files_to_commit
    file_i,            \* position of the file loop in files_to_commit
    existing_sha,      \* existing_file.sha read by get_contents
    latest_commit_sha, \* latest_commit_sha, then process_project's commit_sha
    pages_url,         \* enable_and_verify_pages: pages_url
    probe_i,           \* enable_and_verify_pages: probes issued (loop variable i)
    probe_ok,          \* a probe of the run has answered 200
    deployment,        \* which return of enable_and_verify_pages was taken
    payload,           \* notification_payload
    notify_i,          \* notify_evaluation_api: POSTs issued (loop variable i)
    delay,             \* notify_evaluation_api: delay
    slept,             \* the time.sleep calls of notify_evaluation_api, in order
    post_ok,           \* a POST of the run has answered 200
    called,            \* kinds of remote call the run has completed
    publish_failed,    \* create_and_populate_repo raised
    reads,             \* get_contents calls the run has issued
    writes,            \* update_file / create_file calls the run has issued
    repos              \* the repository host: task name -> repository

vars ==
    << pc, req, response, background_tasks, generated_files, gen_failed, repo,
       files_to_commit, file_i, existing_sha, latest_commit_sha, pages_url,
       probe_i, probe_ok, deployment, payload, notify_i, delay, slept, post_ok,
       called, publish_failed, reads, writes, repos >>

Init ==
    /\ pc = [r \in Runs |-> "idle"]
    /\ req = [r \in Runs |-> NoRequest]
    /\ response = [r \in Runs |-> 0]
    /\ background_tasks = [r \in Runs |-> <<>>]
    /\ generated_files = [r \in Runs |-> NoFiles]
    /\ gen_failed = [r \in Runs |-> FALSE]
    /\ repo = [r \in Runs |-> ""]
    /\ files_to_commit = [r \in Runs |-> <<>>]
    /\ file_i = [r \in Runs |-> 0]
    /\ existing_sha = [r \in Runs |-> NoSha]
    /\ latest_commit_sha = [r \in Runs |-> EmptyCommitSha]
    /\ pages_url = [r \in Runs |-> <<>>]
    /\ probe_i = [r \in Runs |-> 0]
    /\ probe_ok = [r \in Runs |-> FALSE]
    /\ deployment = [r \in Runs |-> "none"]
    /\ payload = [r \in Runs |-> NoPayload]
    /\ notify_i = [r \in Runs |-> 0]
    /\ delay = [r \in Runs |-> 0]
    /\ slept = [r \in Runs |-> <<>>]
    /\ post_ok = [r \in Runs |-> FALSE]
    /\ called = [r \in Runs |-> {}]
    /\ publish_failed = [r \in Runs |-> FALSE]
    /\ reads = [r \in Runs |-> 0]
    /\ writes = [r \in Runs |-> <<>>]
    /\ repos = [n \in Tasks |-> NoRepo]

handlerVars == << req, response, background_tasks >>
genVars == << generated_files, gen_failed >>
publishVars ==
    << repo, publish_failed, files_to_commit, file_i, existing_sha,
       latest_commit_sha, reads, writes, repos >>
activateVars == << pages_url, probe_i, probe_ok, deployment >>
notifyVars == << payload, notify_i, delay, slept, post_ok >>

\* ------------------------------------------------------------------------
\* handle_build_request and the start of the background task

\* Mutant: the task is added twice.
add_task_twice(tasks, func) == Append(Append(tasks, func), func)

\* background_tasks.add_task(process_project, request)
add_task(tasks, func) == Append(tasks, func)

\* Mutant: the gate compares nothing.
SecretAlwaysMatches(request) == request.secret = request.secret

\* The secret gate: TRUE when the request is let through.
SecretMatches(request) == request.secret = MY_SECRET

\* Requests are numbered in their order of arrival.
handle_build_request(r) ==
    /\ pc[r] = "idle"
    /\ \A q \in Runs : q < r => pc[q] # "idle"
    /\ \E secret \in Secrets :
          LET request == ProjectRequest(r, secret)
          IN  /\ req' = [req EXCEPT ![r] = request]
              /\ IF SecretMatches(request)
                 THEN /\ background_tasks' =
                            [background_tasks EXCEPT ![r] = add_task(@, "process_project")]
                      /\ response' = [response EXCEPT ![r] = 200]
                      /\ pc' = [pc EXCEPT ![r] = "accepted"]
                 ELSE /\ response' = [response EXCEPT ![r] = 403]
                      /\ pc' = [pc EXCEPT ![r] = "rejected"]
                      /\ UNCHANGED background_tasks
    /\ UNCHANGED << genVars, called, publishVars, activateVars, notifyVars >>

\* Mutant: the run publishes before it generates.
process_project_without_generation(r) ==
    /\ pc[r] = "accepted"
    /\ background_tasks[r] # <<>>
    /\ background_tasks' = [background_tasks EXCEPT ![r] = Tail(@)]
    /\ pc' = [pc EXCEPT ![r] = "create_repo"]
    /\ UNCHANGED << req, response, genVars, called, publishVars,
                    activateVars, notifyVars >>

\* After the response is sent the framework runs the request's background
\* tasks: process_project starts and calls generate_app_code.
process_project(r) ==
    /\ pc[r] = "accepted"
    /\ background_tasks[r] # <<>>
    /\ Head(background_tasks[r]) = "process_project"
    /\ background_tasks' = [background_tasks EXCEPT ![r] = Tail(@)]
    /\ pc' = [pc EXCEPT ![r] = "generate"]
    /\ UNCHANGED << req, response, genVars, called, publishVars,
                    activateVars, notifyVars >>

\* model.generate_content returns or raises; generate_app_code returns.
generate_content(r) ==
    /\ pc[r] = "generate"
    /\ \E resp \in GeminiResponses :
          /\ generated_files' = [generated_files EXCEPT ![r] = generate_app_code(resp)]
          /\ gen_failed' = [gen_failed EXCEPT
                               ![r] = \/ ~resp.ok
                                      \/ ~json_loads(StripSuffix(StripPrefix(resp.text))).ok]
    /\ called' = [called EXCEPT ![r] = @ \cup {"generate"}]
    /\ pc' = [pc EXCEPT ![r] = "create_repo"]
    /\ UNCHANGED << handlerVars, publishVars, activateVars, notifyVars >>

\* ------------------------------------------------------------------------
\* create_and_populate_repo

\* Mutant: the except clause logs and falls through to the deployment.
AfterPublishFailureFallsThrough == "enable_pages"

\* process_project's except clause around create_and_populate_repo: the run
\* logs and returns.
AfterPublishFailure == "aborted"

\* create_and_populate_repo raises.
PublisherRaises(r) ==
    /\ publish_failed' = [publish_failed EXCEPT ![r] = TRUE]
    /\ pc' = [pc EXCEPT ![r] = AfterPublishFailure]

\* The local code between obtaining the repository and the first
\* get_contents: building files_to_commit raises when files is no mapping.
BeginSync(r, repo_name) ==
    /\ repo' = [repo EXCEPT ![r] = repo_name]
    /\ IF generated_files[r].isdict
       THEN /\ files_to_commit' =
                  [files_to_commit EXCEPT
                      ![r] = FilesToCommit(repo_name, generated_files[r], req[r].brief)]
            /\ file_i' = [file_i EXCEPT ![r] = 1]
            /\ pc' = [pc EXCEPT ![r] = "get_contents"]
            /\ UNCHANGED publish_failed
       ELSE /\ PublisherRaises(r)
            /\ UNCHANGED << files_to_commit, file_i >>

RepoAnswers == {"ok", "GithubException", "Exception"}

\* Mutant: every GithubException of the creation is taken for "exists".
OnAnyCreateRepoGithubException(name_already_exists) == "get_repo"

\* The except clause of the creation: status 422 with "name already exists"
\* falls back to get_repo, any other GithubException is re-raised.
OnCreateRepoGithubException(name_already_exists) ==
    IF name_already_exists THEN "get_repo" ELSE "raise"

create_repo(r) ==
    /\ pc[r] = "create_repo"
    /\ called' = [called EXCEPT ![r] = @ \cup {"repo"}]
    /\ LET repo_name == req[r].task
       IN  \E answer \in RepoAnswers :
              \/ /\ answer = "ok"
                 /\ ~repos[repo_name].exists
                 /\ repos' = [repos EXCEPT ![repo_name].exists = TRUE]
                 /\ BeginSync(r, repo_name)
              \/ /\ answer = "GithubException"
                 /\ \E name_already_exists \in BOOLEAN :
                       /\ name_already_exists => repos[repo_name].exists
                       /\ IF OnCreateRepoGithubException(name_already_exists) = "get_repo"
                          THEN /\ pc' = [pc EXCEPT ![r] = "get_repo"]
                               /\ UNCHANGED publish_failed
                          ELSE PublisherRaises(r)
                 /\ UNCHANGED << repo, files_to_commit, file_i, repos >>
              \/ /\ answer = "Exception"
                 /\ PublisherRaises(r)
                 /\ UNCHANGED << repo, files_to_commit, file_i, repos >>
    /\ UNCHANGED << handlerVars, genVars, existing_sha, latest_commit_sha,
                    reads, writes, activateVars, notifyVars >>

get_repo(r) ==
    /\ pc[r] = "get_repo"
    /\ LET repo_name == req[r].task
       IN  \E answer \in RepoAnswers :
              \/ /\ answer = "ok"
                 /\ repos[repo_name].exists
                 /\ BeginSync(r, repo_name)
              \/ /\ answer # "ok"
                 /\ PublisherRaises(r)
                 /\ UNCHANGED << repo, files_to_commit, file_i >>
    /\ UNCHANGED << handlerVars, genVars, called, existing_sha,
                    latest_commit_sha, reads, writes, repos, activateVars, notifyVars >>

CurrentFile(r) == files_to_commit[r][file_i[r]]

get_contents(r) ==
    /\ pc[r] = "get_contents"
    /\ reads' = [reads EXCEPT ![r] = @ + 1]
    /\ LET stored == repos[repo[r]].files[CurrentFile(r).name]
       IN  \E answer \in RepoAnswers :
              \/ /\ answer = "ok"
                 /\ stored # Absent
                 /\ existing_sha' = [existing_sha EXCEPT ![r] = Sha(stored)]
                 /\ pc' = [pc EXCEPT ![r] = "update_file"]
                 /\ UNCHANGED publish_failed
              \/ /\ answer = "GithubException"
                 \* 404 when the file is absent, or any other error status
                 /\ pc' = [pc EXCEPT ![r] = "create_file"]
                 /\ UNCHANGED << existing_sha, publish_failed >>
              \/ /\ answer = "Exception"
                 /\ PublisherRaises(r)
                 /\ UNCHANGED existing_sha
    /\ UNCHANGED << handlerVars, genVars, called, repo,
                    files_to_commit, file_i, latest_commit_sha, writes, repos,
                    activateVars, notifyVars >>

\* A write call the run issued: existed tells whether the repository held
\* the file when the host executed the call.
WriteRecord(op, path, ok, existed, sha) ==
    [op |-> op, path |-> path, ok |-> ok, existed |-> existed, sha |-> sha]

StoredFile(r) == repos[repo[r]].files[CurrentFile(r).name]

\* A write succeeded: latest_commit_sha = commit['commit'].sha, then the next
\* file, or the return of create_and_populate_repo after the last one (its
\* locals files_to_commit, the loop position and existing_file are gone).
Committed(r, op) ==
    LET repo_name == repo[r]
        file == CurrentFile(r)
        sha == CommitSha(req[r].round, Len(writes[r]) + 1)
    IN  /\ repos' = [repos EXCEPT ![repo_name] = Commit(@, file.name, file.content)]
        /\ writes' = [writes EXCEPT
                         ![r] = Append(@, WriteRecord(op, file.name, TRUE,
                                                      StoredFile(r) # Absent, sha))]
        /\ latest_commit_sha' = [latest_commit_sha EXCEPT ![r] = sha]
        /\ UNCHANGED publish_failed
        /\ IF file_i[r] < Len(files_to_commit[r])
           THEN /\ file_i' = [file_i EXCEPT ![r] = @ + 1]
                /\ pc' = [pc EXCEPT ![r] = "get_contents"]
                /\ UNCHANGED << files_to_commit, existing_sha >>
           ELSE /\ pc' = [pc EXCEPT ![r] = "enable_pages"]
                /\ file_i' = [file_i EXCEPT ![r] = 0]
                /\ files_to_commit' = [files_to_commit EXCEPT ![r] = <<>>]
                /\ existing_sha' = [existing_sha EXCEPT ![r] = NoSha]

\* Mutant: a failed write removes the files the run has written.
WriteFailedRollsBack(r, op) ==
    /\ writes' = [writes EXCEPT
                     ![r] = Append(@, WriteRecord(op, CurrentFile(r).name, FALSE,
                                                  StoredFile(r) # Absent, EmptyCommitSha))]
    /\ repos' = [repos EXCEPT
                    ![repo[r]].files =
                       [f \in FileNames |->
                          IF \E k \in 1 .. Len(writes[r]) :
                                writes[r][k].ok /\ writes[r][k].path = f
                          THEN Absent
                          ELSE @[f]]]
    /\ UNCHANGED << latest_commit_sha, file_i, files_to_commit, existing_sha >>

\* A write failed.
WriteFailed(r, op) ==
    /\ writes' = [writes EXCEPT
                     ![r] = Append(@, WriteRecord(op, CurrentFile(r).name, FALSE,
                                                  StoredFile(r) # Absent, EmptyCommitSha))]
    /\ UNCHANGED << repos, latest_commit_sha, file_i, files_to_commit, existing_sha >>

\* update_file raised a GithubException inside the try of the file loop: the
\* except clause that serves get_contents catches it and calls create_file.
UpdateGithubException(r) ==
    /\ WriteFailed(r, "update")
    /\ pc' = [pc EXCEPT ![r] = "create_file"]
    /\ UNCHANGED publish_failed

\* Any other failure of a write leaves create_and_populate_repo.
WriteRaises(r, op) ==
    /\ WriteFailed(r, op)
    /\ PublisherRaises(r)

update_file(r) ==
    /\ pc[r] = "update_file"
    /\ \E answer \in RepoAnswers :
          \/ /\ answer = "ok"
             /\ StoredFile(r) # Absent
             /\ Sha(StoredFile(r)) = existing_sha[r]
             /\ Committed(r, "update")
          \/ /\ answer = "GithubException"
             \* 409 when the hash is stale, or any other error status
             /\ UpdateGithubException(r)
          \/ /\ answer = "Exception"
             /\ WriteRaises(r, "update")
    /\ UNCHANGED << handlerVars, genVars, called, repo, reads,
                    activateVars, notifyVars >>

create_file(r) ==
    /\ pc[r] = "create_file"
    /\ \E answer \in RepoAnswers :
          \/ /\ answer = "ok"
             /\ StoredFile(r) = Absent
             /\ Committed(r, "create")
          \/ /\ answer # "ok"
             \* 422 when the file exists, or any other failure
             /\ WriteRaises(r, "create")
    /\ UNCHANGED << handlerVars, genVars, called, repo, reads,
                    activateVars, notifyVars >>

\* ------------------------------------------------------------------------
\* enable_and_verify_pages

\* Mutant: a failed enable request ends the run.
enable_pages_or_abort(r) ==
    /\ pc[r] = "enable_pages"
    /\ called' = [called EXCEPT ![r] = @ \cup {"enable"}]
    /\ pages_url' = [pages_url EXCEPT ![r] = PagesUrl(repo[r])]
    /\ \E answer \in RepoAnswers :
          \/ /\ answer = "ok"
             /\ ~repos[repo[r]].pages
             /\ repos' = [repos EXCEPT ![repo[r]].pages = TRUE]
             /\ pc' = [pc EXCEPT ![r] = "probe"]
          \/ /\ answer # "ok"
             /\ UNCHANGED repos
             /\ pc' = [pc EXCEPT ![r] = "done"]
    /\ probe_i' = [probe_i EXCEPT ![r] = 0]
    /\ UNCHANGED << handlerVars, genVars, repo, publish_failed,
                    files_to_commit, file_i, existing_sha, latest_commit_sha, reads,
                    writes, probe_ok, deployment, notifyVars >>

\* The POST /repos/<full_name>/pages request; every failure is caught.
enable_pages(r) ==
    /\ pc[r] = "enable_pages"
    /\ called' = [called EXCEPT ![r] = @ \cup {"enable"}]
    /\ pages_url' = [pages_url EXCEPT ![r] = PagesUrl(repo[r])]
    /\ \E answer \in RepoAnswers :
          \/ /\ answer = "ok"
             /\ ~repos[repo[r]].pages
             /\ repos' = [repos EXCEPT ![repo[r]].pages = TRUE]
          \/ /\ answer # "ok"
             \* 409 when hosting is already on, or any other failure
             /\ UNCHANGED repos
    /\ probe_i' = [probe_i EXCEPT ![r] = 0]
    /\ pc' = [pc EXCEPT ![r] = "probe"]
    /\ UNCHANGED << handlerVars, genVars, repo, publish_failed,
                    files_to_commit, file_i, existing_sha, latest_commit_sha, reads,
                    writes, probe_ok, deployment, notifyVars >>

notification_payload(r, url) ==
    [email |-> req[r].email, task |-> req[r].task, round |-> req[r].round,
     nonce |-> req[r].nonce, repo_url |-> html_url(repo[r]),
     commit_sha |-> latest_commit_sha[r], pages_url |-> url]

\* What enable_and_verify_pages hands back to process_project: both of its
\* returns (a probe answered 200; the retries are used up) return pages_url.
DeploymentResult(url, status) == url

\* Mutant: process_project ends without notifying.
ActivatorReturnsToTheEnd(r, status) ==
    /\ deployment' = [deployment EXCEPT ![r] = status]
    /\ probe_i' = [probe_i EXCEPT ![r] = 0]
    /\ pc' = [pc EXCEPT ![r] = "done"]
    /\ UNCHANGED << payload, notify_i, delay >>

\* enable_and_verify_pages returns; process_project builds the payload and
\* calls notify_evaluation_api.
ActivatorReturns(r, status) ==
    /\ deployment' = [deployment EXCEPT ![r] = status]
    /\ probe_i' = [probe_i EXCEPT ![r] = 0]
    /\ payload' = [payload EXCEPT
                       ![r] = notification_payload(r, DeploymentResult(pages_url[r], status))]
    /\ notify_i' = [notify_i EXCEPT ![r] = 0]
    /\ delay' = [delay EXCEPT ![r] = InitialDelay]
    /\ pc' = [pc EXCEPT ![r] = "post"]

\* Mutant: any HTTP response counts as live.
ProbeAnswered(answer) == ~answer.raised

ProbeSucceeded(answer) == ~answer.raised /\ answer.status_code = 200

\* One requests.get of the hosting URL and, unless it answered 200, the
\* sleep and the loop test that follow it.
probe(r) ==
    /\ pc[r] = "probe"
    /\ probe_i[r] < ProbeRetries
    /\ called' = [called EXCEPT ![r] = @ \cup {"probe"}]
    /\ \E answer \in HttpAnswers :
          /\ probe_ok' = [probe_ok EXCEPT ![r] = @ \/ (~answer.raised /\ answer.status_code = 200)]
          /\ IF ProbeSucceeded(answer)
             THEN ActivatorReturns(r, "Live")
             ELSE IF probe_i[r] + 1 < ProbeRetries
                  THEN /\ probe_i' = [probe_i EXCEPT ![r] = @ + 1]
                       /\ UNCHANGED << pc, deployment, payload, notify_i, delay >>
                  ELSE ActivatorReturns(r, "TimedOut")
    /\ UNCHANGED << handlerVars, genVars, publishVars, pages_url, slept, post_ok >>

\* ------------------------------------------------------------------------
\* notify_evaluation_api

NotifySucceeded(answer) == ~answer.raised /\ answer.status_code = 200

\* Mutant: the delay grows by one.
LinearDelay(d) == d + 1

NextDelay(d) == d * 2

\* One requests.post and, unless it answered 200, the sleep, the doubling
\* and the loop test that follow it.
post(r) ==
    /\ pc[r] = "post"
    /\ notify_i[r] < NotifyRetries
    /\ called' = [called EXCEPT ![r] = @ \cup {"post"}]
    /\ notify_i' = [notify_i EXCEPT ![r] = @ + 1]
    /\ \E answer \in HttpAnswers :
          /\ post_ok' = [post_ok EXCEPT ![r] = @ \/ (~answer.raised /\ answer.status_code = 200)]
          /\ IF NotifySucceeded(answer)
             THEN /\ pc' = [pc EXCEPT ![r] = "done"]
                  /\ UNCHANGED << delay, slept >>
             ELSE /\ slept' = [slept EXCEPT ![r] = Append(@, delay[r])]
                  /\ delay' = [delay EXCEPT ![r] = NextDelay(@)]
                  /\ pc' = [pc EXCEPT ![r] =
                               IF notify_i[r] + 1 < NotifyRetries THEN "post" ELSE "done"]
    /\ UNCHANGED << handlerVars, genVars, publishVars, activateVars, payload >>

\* ------------------------------------------------------------------------

RunStep(r) ==
    \/ process_project(r)
    \/ generate_content(r)
    \/ create_repo(r)
    \/ get_repo(r)
    \/ get_contents(r)
    \/ update_file(r)
    \/ create_file(r)
    \/ enable_pages(r)
    \/ probe(r)
    \/ post(r)

Next == \E r \in Runs : handle_build_request(r) \/ RunStep(r)

Spec == Init /\ [][Next]_vars

\* Every remote call returns and every thread keeps being scheduled.
FairSpec == Spec /\ \A r \in Runs : WF_vars(RunStep(r))

\* Rounds sent one after the other: a request arrives only when the runs of
\* the earlier ones have ended, so that each Publisher run has the
\* repository to itself.
Ended(r) == pc[r] \in {"rejected", "done", "aborted"}

SeqNext ==
    \E r \in Runs :
       \/ handle_build_request(r) /\ \A q \in Runs : q < r => Ended(q)
       \/ RunStep(r)

SeqSpec == Init /\ [][SeqNext]_vars

\* A repository that an earlier round has left on the host.
PreExistingRepo ==
    [exists |-> TRUE,
     files |-> [f \in FileNames |->
                  CASE f = "LICENSE" -> mit_license
                    [] f = "README.md" -> readme_content("app", "brief")
                    [] f = "index.html" -> <<"html v0">>
                    [] f = "script.js" -> <<"js v0">>],
     pages |-> TRUE]

\* The service starts with the repository absent or left by an earlier round.
RaceInit ==
    /\ pc = [r \in Runs |-> "idle"]
    /\ req = [r \in Runs |-> NoRequest]
    /\ response = [r \in Runs |-> 0]
    /\ background_tasks = [r \in Runs |-> <<>>]
    /\ generated_files = [r \in Runs |-> NoFiles]
    /\ gen_failed = [r \in Runs |-> FALSE]
    /\ repo = [r \in Runs |-> ""]
    /\ files_to_commit = [r \in Runs |-> <<>>]
    /\ file_i = [r \in Runs |-> 0]
    /\ existing_sha = [r \in Runs |-> NoSha]
    /\ latest_commit_sha = [r \in Runs |-> EmptyCommitSha]
    /\ pages_url = [r \in Runs |-> <<>>]
    /\ probe_i = [r \in Runs |-> 0]
    /\ probe_ok = [r \in Runs |-> FALSE]
    /\ deployment = [r \in Runs |-> "none"]
    /\ payload = [r \in Runs |-> NoPayload]
    /\ notify_i = [r \in Runs |-> 0]
    /\ delay = [r \in Runs |-> 0]
    /\ slept = [r \in Runs |-> <<>>]
    /\ post_ok = [r \in Runs |-> FALSE]
    /\ called = [r \in Runs |-> {}]
    /\ publish_failed = [r \in Runs |-> FALSE]
    /\ reads = [r \in Runs |-> 0]
    /\ writes = [r \in Runs |-> <<>>]
    /\ repos \in {[n \in Tasks |-> NoRepo], [n \in Tasks |-> PreExistingRepo]}

\* The repository host at work: each of its answers is the one the state of
\* the repository calls for (422 "name already exists" for the creation of
\* a repository it holds, 404 for the read of a file it does not hold, 409
\* for an update with a hash that is not the file's, 422 for the creation of
\* a file it holds, success otherwise).
HostAnswersByState(r) ==
    /\ pc[r] = "create_repo"
          => IF repos[req[r].task].exists THEN pc'[r] = "get_repo" ELSE repo'[r] # ""
    /\ pc[r] = "get_repo" => repo'[r] # ""
    /\ pc[r] = "get_contents"
          => pc'[r] = (IF StoredFile(r) # Absent THEN "update_file" ELSE "create_file")
    /\ pc[r] = "update_file"
          => IF Sha(StoredFile(r)) = existing_sha[r]
             THEN writes'[r][Len(writes'[r])].ok
             ELSE pc'[r] = "create_file"
    /\ (pc[r] = "create_file" /\ StoredFile(r) = Absent)
          => writes'[r][Len(writes'[r])].ok
    /\ (pc[r] = "enable_pages" /\ ~repos[repo[r]].pages) => repos'[repo[r]].pages

RaceNext ==
    \E r \in Runs :
       \/ handle_build_request(r)
       \/ process_project(r)
       \/ generate_content(r)
       \/ create_repo(r) /\ HostAnswersByState(r)
       \/ get_repo(r) /\ HostAnswersByState(r)
       \/ get_contents(r) /\ HostAnswersByState(r)
       \/ update_file(r) /\ HostAnswersByState(r)
       \/ create_file(r) /\ HostAnswersByState(r)
       \/ enable_pages(r) /\ HostAnswersByState(r)
       \/ probe(r)
       \/ post(r)

RaceSpec == RaceInit /\ [][RaceNext]_vars

\* ------------------------------------------------------------------------
\* The stages of a run

PublishingPcs == {"create_repo", "get_repo", "get_contents", "update_file", "create_file"}

Stage(p) ==
    CASE p = "idle" -> "NotReceived"
      [] p = "rejected" -> "Rejected"
      [] p = "accepted" -> "Scheduled"
      [] p = "generate" -> "Generating"
      [] p \in PublishingPcs -> "Publishing"
      [] p \in {"enable_pages", "probe"} -> "Activating"
      [] p = "post" -> "Notifying"
      [] p = "done" -> "Done"
      [] p = "aborted" -> "Aborted"

Started(r) == pc[r] \notin {"idle", "rejected", "accepted"}

PublisherReturned(r) == pc[r] \in {"enable_pages", "probe", "post", "done"}

\* ------------------------------------------------------------------------
\* Properties

StageEdges ==
    { <<"NotReceived", "Rejected">>, <<"NotReceived", "Scheduled">>,
      <<"Scheduled", "Generating">>, <<"Generating", "Publishing">>,
      <<"Publishing", "Activating">>, <<"Publishing", "Aborted">>,
      <<"Activating", "Notifying">>, <<"Notifying", "Done">> }

CallsInStageOrder(r) ==
    /\ Stage(pc[r]) \in {"NotReceived", "Rejected", "Scheduled", "Generating"}
          => called[r] = {} /\ reads[r] = 0 /\ writes[r] = <<>>
    /\ called[r] # {} => "generate" \in called[r]
    /\ Stage(pc[r]) = "Publishing" => called[r] \subseteq {"generate", "repo"}
    /\ called[r] \cap {"enable", "probe"} # {}
          => "repo" \in called[r] /\ Stage(pc[r]) \in {"Activating", "Notifying", "Done"}
    /\ Stage(pc[r]) = "Activating" => "post" \notin called[r]
    /\ "post" \in called[r]
          => /\ {"enable", "probe"} \subseteq called[r]
             /\ deployment[r] # "none"
             /\ Stage(pc[r]) \in {"Notifying", "Done"}

\* C1: within a run the stages follow Generating, Publishing, Activating,
\* Notifying, Done; no repository operation precedes the return of the code
\* generation, no hosting request or probe precedes the return of the
\* Publisher, no callback POST precedes the return of the Activator; the only
\* edge that leaves the chain is Publishing to Aborted.
C1_StagesInOrder ==
    /\ [](\A r \in Runs : CallsInStageOrder(r))
    /\ [][\A r \in Runs :
             Stage(pc'[r]) # Stage(pc[r])
                => <<Stage(pc[r]), Stage(pc'[r])>> \in StageEdges]_vars

C1_Witness ==
    \E r \in Runs :
       pc[r] = "done" /\ called[r] = {"generate", "repo", "enable", "probe", "post"}

\* C2: when the Publisher fails, the run ends in Aborted and has issued no
\* hosting-enable request, no probe and no callback POST.
C2_PublisherFailureAborts ==
    \A r \in Runs :
       /\ publish_failed[r] => pc[r] = "aborted"
       /\ pc[r] = "aborted"
             => /\ called[r] \cap {"enable", "probe", "post"} = {}
                /\ deployment[r] = "none"
                /\ payload[r] = NoPayload
                /\ probe_i[r] = 0 /\ notify_i[r] = 0 /\ slept[r] = <<>>

C2_Witness ==
    \E r \in Runs :
       /\ pc[r] = "aborted" /\ publish_failed[r]
       /\ writes[r] # <<>> /\ ~writes[r][Len(writes[r])].ok

\* C3: provided every remote call returns, a started run ends in Done or
\* Aborted, and a run whose Publisher returned goes on to Notifying and then
\* to Done, whatever the hosting request, the probes and the POSTs answer; a
\* deployment that timed out is still followed by a callback POST.
C3_RunsTerminate ==
    /\ \A r \in Runs : Started(r) ~> pc[r] \in {"done", "aborted"}
    /\ [](\A r \in Runs :
             /\ PublisherReturned(r) => ~publish_failed[r]
             /\ pc[r] = "done" => "post" \in called[r] /\ deployment[r] # "none"
             /\ deployment[r] = "TimedOut" => Stage(pc[r]) \in {"Notifying", "Done"})
    /\ [][\A r \in Runs :
             /\ PublisherReturned(r) => PublisherReturned(r)'
             /\ Stage(pc[r]) = "Notifying" => Stage(pc'[r]) \in {"Notifying", "Done"}]_vars

C3_Witness ==
    \E r \in Runs :
       /\ pc[r] = "done"
       /\ deployment[r] = "TimedOut"
       /\ ~repos[repo[r]].pages
       /\ notify_i[r] = NotifyRetries /\ ~post_ok[r]

\* C4: a request with a wrong secret is answered 403 and schedules no run: no
\* code generation, no repository operation and no callback POST occurs for it.
C4_WrongSecretRejected ==
    \A r \in Runs :
       (pc[r] # "idle" /\ req[r].secret # MY_SECRET)
          => /\ response[r] = 403
             /\ pc[r] = "rejected"
             /\ background_tasks[r] = <<>>
             /\ called[r] = {} /\ reads[r] = 0 /\ writes[r] = <<>>
             /\ generated_files[r] = NoFiles /\ repo[r] = ""

C4_Witness ==
    /\ \A r \in Runs : pc[r] = "rejected" /\ req[r].secret = "wrong"
    /\ \A n \in Tasks : repos[n] = NoRepo

RunsScheduled(r) == Len(background_tasks[r]) + (IF Started(r) THEN 1 ELSE 0)

\* C5: a request with the right secret schedules exactly one run and is
\* answered 200 before any remote call of that run has completed; the
\* response, once sent, does not change whatever the run does.
C5_AcceptedBeforeRun ==
    /\ [](\A r \in Runs :
             /\ (pc[r] # "idle" /\ req[r].secret = MY_SECRET)
                   => response[r] = 200 /\ RunsScheduled(r) = 1
             /\ response[r] = 0 => called[r] = {} /\ ~Started(r))
    /\ [][\A r \in Runs :
             /\ (response[r] = 0 /\ response'[r] = 200)
                   => called'[r] = {} /\ ~Started(r)' /\ RunsScheduled(r)' = 1
             /\ response[r] # 0 => response'[r] = response[r]]_vars

C5_Witness ==
    \E r \in Runs :
       /\ response[r] = 200 /\ pc[r] = "accepted" /\ called[r] = {}
       /\ \E q \in Runs : pc[q] = "aborted" /\ response[q] = 200

Range(seq) == {seq[k] : k \in 1 .. Len(seq)}

Present(repository) == {f \in FileNames : repository.files[f] # Absent}

\* The file names a run is to write: the two standard files and the names
\* of the Artifact Set.
FileList(r) == {"LICENSE", "README.md"} \cup {e.name : e \in Range(generated_files[r].entries)}

\* The file names the earlier runs left in the repository.
OldFiles(r) == {w.path : w \in {v \in UNION {Range(writes[q]) : q \in 1 .. r - 1} : v.ok}}

Updates(r) == {k \in 1 .. Len(writes[r]) : writes[r][k].op = "update"}

Creates(r) == {k \in 1 .. Len(writes[r]) : writes[r][k].op = "create"}

\* C6: a Publisher run in which no remote operation fails writes each file of
\* its list exactly once, by an update when the repository held the file and
\* by a create otherwise: M updates and K creates for M old and K new names;
\* the repository then holds the union of the old names and the list; a run
\* that repeats the Artifact Set of an earlier run performs no create.
C6_SyncComplete ==
    \A r \in Runs :
       PublisherReturned(r)
          => /\ \A k \in 1 .. Len(writes[r]) : writes[r][k].ok
             /\ Len(writes[r]) = Cardinality(FileList(r))
             /\ {w.path : w \in Range(writes[r])} = FileList(r)
             /\ \A w \in Range(writes[r]) :
                   /\ (w.op = "update") = w.existed
                   /\ w.existed = (w.path \in OldFiles(r))
             /\ Cardinality(Updates(r)) = Cardinality(FileList(r) \cap OldFiles(r))
             /\ Cardinality(Creates(r)) = Cardinality(FileList(r) \ OldFiles(r))
             /\ (\A q \in Runs : q > r => writes[q] = <<>>)
                   => Present(repos[repo[r]]) = OldFiles(r) \cup FileList(r)
             /\ \A q \in Runs :
                   (q < r /\ PublisherReturned(q) /\ generated_files[q] = generated_files[r])
                      => Creates(r) = {}

\* A second run that updates some files and creates another.
C6_Witness ==
    \E r \in Runs :
       /\ r > 1 /\ PublisherReturned(r) /\ PublisherReturned(r - 1)
       /\ Cardinality(Updates(r)) = 3 /\ Cardinality(Creates(r)) = 1

SuccessfulPaths(r) == [k \in 1 .. Len(writes[r]) |-> writes[r][k].path]

\* C7: the files are written LICENSE first, README.md second, then the
\* entries of the Artifact Set in their input order, and the commit identifier
\* the Publisher returns (and the payload carries) is that of the last write.
C7_WriteOrderAndCommit ==
    \A r \in Runs :
       PublisherReturned(r)
          => /\ SuccessfulPaths(r)
                   = <<"LICENSE", "README.md">> \o Names(generated_files[r].entries)
             /\ latest_commit_sha[r] = writes[r][Len(writes[r])].sha
             /\ payload[r] # NoPayload => payload[r].commit_sha = latest_commit_sha[r]

\* C8: the Publisher first tries to create the repository; it fetches it only
\* when the creation failed because the name exists, and then goes on to the
\* file sync; when the repository was not obtained no file is read or
\* written and the run aborts.
C8_GetOrCreate ==
    /\ [](\A r \in Runs :
             /\ (pc[r] = "get_repo" \/ repo[r] # "" \/ reads[r] > 0 \/ writes[r] # <<>>)
                   => "repo" \in called[r]
             /\ pc[r] = "get_repo" => repos[req[r].task].exists
             /\ repo[r] # "" => repo[r] = req[r].task /\ repos[repo[r]].exists
             /\ repo[r] = "" => reads[r] = 0 /\ writes[r] = <<>>
             /\ (repo[r] = "" /\ "repo" \in called[r])
                   => pc[r] \in {"get_repo", "aborted"}
             /\ (repo[r] = "" /\ pc[r] = "aborted") => publish_failed[r])
    /\ [][\A r \in Runs :
             /\ (pc[r] = "create_repo" /\ pc'[r] # "create_repo")
                   => \/ pc'[r] = "get_repo" /\ repos[req[r].task].exists
                      \/ pc'[r] = "aborted"
                      \/ pc'[r] = "get_contents" /\ ~repos[req[r].task].exists
             /\ (pc[r] = "get_repo" /\ pc'[r] # "get_repo")
                   => pc'[r] \in {"get_contents", "aborted"}]_vars

\* Both runs hold the repository and read files: one of them fetched it.
C8_Witness ==
    /\ \A r \in Runs : repo[r] = "app" /\ reads[r] > 0
    /\ \E r \in Runs : pc[r] \in {"get_contents", "update_file", "create_file"}

\* C9: the Activator issues at most 15 probes and none after a probe answered
\* 200; the outcome is Live exactly when a probe answered 200, also the 15th,
\* and TimedOut, with the same URL, when all 15 failed; no failure of a probe
\* leaves the Activator as an exception.
C9_BoundedProbes ==
    /\ [](\A r \in Runs :
             /\ probe_i[r] <= 15
             /\ pc[r] = "probe"
                   => probe_i[r] < 15 /\ ~probe_ok[r] /\ deployment[r] = "none"
             /\ (deployment[r] = "Live") = probe_ok[r]
             /\ deployment[r] \in {"none", "Live", "TimedOut"}
             /\ deployment[r] # "none"
                   => /\ pc[r] \in {"post", "done"}
                      /\ pages_url[r] = <<"https://owner.github.io", req[r].task>>
                      /\ payload[r].pages_url = pages_url[r])
    /\ [][\A r \in Runs :
             /\ pc[r] = "probe" => pc'[r] \in {"probe", "post"}
             /\ (pc[r] = "probe" /\ probe_i'[r] # probe_i[r] /\ pc'[r] = "probe")
                   => probe_i'[r] = probe_i[r] + 1
             /\ (pc[r] = "probe" /\ pc'[r] = "post")
                   => \/ deployment'[r] = "Live" /\ probe_ok'[r]
                      \/ /\ deployment'[r] = "TimedOut" /\ ~probe_ok'[r]
                         /\ probe_i[r] = 14]_vars

C9_Witness ==
    \E r \in Runs :
       /\ deployment[r] = "TimedOut" /\ ~probe_ok[r]
       /\ \E q \in Runs : pc[q] = "probe" /\ probe_i[q] = 14

RECURSIVE Sum(_)
Sum(seq) == IF seq = <<>> THEN 0 ELSE Head(seq) + Sum(Tail(seq))

\* C10: the Notifier makes at most 5 POSTs and none after a POST answered
\* 200; no answer and no transport failure makes it raise; before a success at
\* the 5th attempt it has waited 1, 2, 4, 8 (15 in all); when every POST
\* fails it has made exactly 5 and returns.
C10_BoundedBackoff ==
    /\ [](\A r \in Runs :
             /\ notify_i[r] <= 5
             /\ pc[r] = "post" => notify_i[r] < 5 /\ ~post_ok[r]
             /\ post_ok[r]
                   => /\ pc[r] = "done"
                      /\ slept[r] = SubSeq(<<1, 2, 4, 8>>, 1, notify_i[r] - 1)
             /\ (post_ok[r] /\ notify_i[r] = 5) => Sum(slept[r]) = 15
             /\ pc[r] = "done" => post_ok[r] \/ notify_i[r] = 5
             /\ "post" \in called[r] => pc[r] \in {"post", "done"})
    /\ [][\A r \in Runs :
             /\ pc[r] = "post" => pc'[r] \in {"post", "done"}
             /\ notify_i'[r] # notify_i[r]
                   => /\ pc[r] \in {"probe", "post"}
                      /\ notify_i'[r] = (IF pc[r] = "post" THEN notify_i[r] + 1 ELSE 0)
             /\ (pc[r] = "post" /\ pc'[r] = "done") => notify_i'[r] = notify_i[r] + 1
             /\ slept'[r] # slept[r]
                   => pc[r] = "post" /\ Len(slept'[r]) = Len(slept[r]) + 1]_vars

C10_Witness ==
    /\ \E r \in Runs : pc[r] = "done" /\ post_ok[r] /\ notify_i[r] = 5
    /\ \E r \in Runs : pc[r] = "done" /\ ~post_ok[r] /\ notify_i[r] = 5

\* C11: when the code-generation call raises or its output does not parse,
\* generate_app_code returns the mapping with the single entry index.html
\* (the error page) and the run goes on into Publishing; building the file
\* list of such a run does not fail, so the run aborts only where a call to
\* the repository host failed.
C11_FallbackGeneration ==
    /\ [](\A r \in Runs :
             gen_failed[r]
                => /\ generated_files[r].isdict
                   /\ Len(generated_files[r].entries) = 1
                   /\ generated_files[r].entries[1].name = "index.html"
                   /\ generated_files[r].entries[1].content = FallbackPage
                   /\ Stage(pc[r]) \in {"Publishing", "Activating", "Notifying",
                                        "Done", "Aborted"}
                   /\ pc[r] = "aborted"
                         => publish_failed[r] /\ (repo[r] = "" \/ reads[r] > 0))
    /\ [][\A r \in Runs :
             pc[r] = "generate" => pc'[r] \in {"generate", "create_repo"}]_vars

\* A run with the fallback page is published, deployed and notified.
C11_Witness ==
    \E r \in Runs :
       /\ gen_failed[r] /\ pc[r] = "done"
       /\ repos[repo[r]].files["index.html"] = FallbackPage

\* C12: a failed update or create is the last remote write of its run (no
\* other write for the same file, none for the files after it) and the
\* failure leaves create_and_populate_repo: the run is aborted.
C12_NoWriteAfterFailedWrite ==
    \A r \in Runs :
       \A k \in 1 .. Len(writes[r]) :
          ~writes[r][k].ok
             => /\ k = Len(writes[r])
                /\ pc[r] = "aborted"
                /\ publish_failed[r]

\* C13: a create is issued only for a file the run did not find in the
\* repository (never for a file it has issued an update for); an update is
\* issued for a file the repository holds, with the hash the run read, and an
\* update whose hash is stale (another run wrote the file after this run's
\* read) is rejected and leaves the repository as the other run wrote it.
C13_CreateOnlyIfAbsent ==
    /\ [](\A r \in Runs :
             \A k \in 1 .. Len(writes[r]) :
                /\ writes[r][k].op = "create"
                      => ~\E j \in 1 .. k - 1 :
                             /\ writes[r][j].op = "update"
                             /\ writes[r][j].path = writes[r][k].path
                /\ writes[r][k].op = "update" => writes[r][k].existed)
    /\ [][\A r \in Runs :
             (/\ pc[r] = "update_file"
              /\ writes'[r] # writes[r]
              /\ Sha(StoredFile(r)) # existing_sha[r])
                => /\ repos' = repos
                   /\ ~writes'[r][Len(writes'[r])].ok]_vars

\* The step is a successful write of run r.
Wrote(r) == writes'[r] # writes[r] /\ writes'[r][Len(writes'[r])].ok

\* C14: with two runs for the same task interleaved in any order and a host
\* that answers by the repository's state, every run that generated a mapping
\* obtains the repository (created or fetched), is never aborted in its file
\* sync and goes on to Activating; each successful write sets the file to the
\* writer's content and nothing else changes a file, so each file ends with
\* the content of the run that wrote it last.
C14_LastWriterWins ==
    /\ [](\A r \in Runs :
             /\ "repo" \in called[r] /\ pc[r] # "get_repo"
                   => repo[r] = req[r].task /\ repos[repo[r]].exists
             /\ pc[r] = "aborted" => ~generated_files[r].isdict
             /\ \A k \in 1 .. Len(writes[r]) : writes[r][k].ok)
    /\ [][\A r \in Runs :
             /\ Wrote(r)
                   => repos'[repo[r]].files =
                         [repos[repo[r]].files EXCEPT
                             ![CurrentFile(r).name] = CurrentFile(r).content]
             /\ (\A q \in Runs : ~Wrote(q))
                   => \A n \in Tasks : repos'[n].files = repos[n].files]_vars

\* C15: the file list of the Publisher has the size of the Artifact Set plus
\* 2, and its LICENSE and README.md entries carry the standard contents (the
\* MIT text, the readme made of repository name and brief), also when the
\* Artifact Set has an entry of one of these names.
C15_TwoStandardFilesAdded ==
    \A r \in Runs :
       file_i[r] > 0
          => /\ Len(files_to_commit[r]) = Len(generated_files[r].entries) + 2
             /\ \A k \in 1 .. Len(files_to_commit[r]) :
                   /\ files_to_commit[r][k].name = "LICENSE"
                         => files_to_commit[r][k].content = mit_license
                   /\ files_to_commit[r][k].name = "README.md"
                         => files_to_commit[r][k].content
                               = readme_content(req[r].task, req[r].brief)

\* C16: whatever the code-generation service answers, generate_app_code
\* returns a mapping of file names to contents with at least one entry: the
\* Artifact Set handed to the Publisher is never empty.
C16_ArtifactSetNeverEmpty ==
    \A r \in Runs :
       "generate" \in called[r]
          => /\ generated_files[r].isdict
             /\ Len(generated_files[r].entries) >= 1

\* C17: the Activator returns with one of the statuses Live and TimedOut, and
\* the payload POSTed to the callback tells which: the payload of a run whose
\* deployment timed out carries the hosting URL and differs from the payload
\* the same run would POST after a Live deployment (and the other way round).
C17_StatusReachesCallback ==
    \A r \in Runs :
       deployment[r] # "none"
          => /\ deployment[r] \in {"Live", "TimedOut"}
             /\ payload[r].pages_url = PagesUrl(repo[r])
             /\ \A status \in {"Live", "TimedOut"} \ {deployment[r]} :
                   payload[r] #
                      notification_payload(r, DeploymentResult(pages_url[r], status))

\* C18: the Notifier waits after a failed POST only when another attempt
\* remains: a callback that always fails costs the 4 waits 1, 2, 4, 8 (15 in
\* all) and no wait follows the 5th failed attempt.
C18_NoWaitAfterLastAttempt ==
    \A r \in Runs :
       /\ Len(slept[r]) <= NotifyRetries - 1
       /\ (pc[r] = "done" /\ ~post_ok[r])
             => slept[r] = <<1, 2, 4, 8>> /\ Sum(slept[r]) = 15

\* The files a run has written, the content it has for a file, and the
\* content the earlier runs left for a file.
Written(r) == {w.path : w \in {v \in Range(writes[r]) : v.ok}}

ContentOf(r, f) ==
    LET list == FilesToCommit(req[r].task, generated_files[r], req[r].brief)
    IN  list[CHOOSE k \in 1 .. Len(list) : list[k].name = f].content

PriorContent(r, f) ==
    LET qs == {q \in 1 .. r - 1 : f \in Written(q)}
    IN  IF qs = {}
        THEN Absent
        ELSE ContentOf(CHOOSE q \in qs : \A p \in qs : p <= q, f)

MidSyncFailure(r) ==
    /\ pc[r] = "aborted"
    /\ writes[r] # <<>>
    /\ ~writes[r][Len(writes[r])].ok

\* C19: when a write fails in the middle of the sync nothing is rolled back:
\* the files the run wrote before keep the run's content, the failing file and
\* the files after it keep what they had before the run (old content or
\* absent), the repository still exists, and the run is aborted without
\* hosting request, probe or callback.
C19_NoRollback ==
    \A r \in Runs :
       (MidSyncFailure(r) /\ \A q \in Runs : q > r => writes[q] = <<>>)
          => /\ repos[repo[r]].exists
             /\ \A f \in FileNames :
                   repos[repo[r]].files[f] =
                      (IF f \in Written(r) THEN ContentOf(r, f) ELSE PriorContent(r, f))
             /\ called[r] \cap {"enable", "probe", "post"} = {}
             /\ deployment[r] = "none" /\ payload[r] = NoPayload

\* A second round fails after it has replaced a file: that file has the new
\* content, a file further down the list still has the first round's.
C19_Witness ==
    \E r \in Runs :
       /\ MidSyncFailure(r)
       /\ \E f \in Written(r) : PriorContent(r, f) \notin {Absent, ContentOf(r, f)}
       /\ \E f \in FileList(r) \ Written(r) :
             /\ PriorContent(r, f) \notin {Absent, ContentOf(r, f)}
             /\ repos[repo[r]].files[f] = PriorContent(r, f)

\* C20: a failed enable request (hosting already on, or any other failure)
\* is not fatal: whatever the request answered, the Activator goes on to
\* polling, probes the hosting URL at least once before it returns, and
\* returns the same hosting URL, which the payload carries; the step of the
\* enable request leads to polling and nowhere else.
C20_EnableFailureNotFatal ==
    /\ [](\A r \in Runs :
             "enable" \in called[r]
                => /\ pc[r] \in {"probe", "post", "done"}
                   /\ pages_url[r] = PagesUrl(req[r].task)
                   /\ pc[r] \in {"post", "done"}
                         => /\ "probe" \in called[r]
                            /\ deployment[r] \in {"Live", "TimedOut"}
                            /\ payload[r].pages_url = PagesUrl(req[r].task))
    /\ [][\A r \in Runs :
             pc[r] = "enable_pages" => pc'[r] \in {"enable_pages", "probe"}]_vars

\* Hosting was never switched on (every enable request failed), and a run
\* has polled, found the site live and notified.
C20_Witness ==
    \E r \in Runs :
       /\ pc[r] = "done" /\ deployment[r] = "Live" /\ post_ok[r]
       /\ ~repos[repo[r]].pages

====
